---- MODULE Spec2Model ----
(***************************************************************************)
(* Evaluation ingestion (admission control) of the EvalGuard dashboard:    *)
(* the Deno.serve handler of the ingest function, the eval_configs and     *)
(* evaluations tables it reads and writes, the clock that decides "today", *)
(* and the other writers of the tables: the signup trigger, the Settings   *)
(* page and the seed scripts.  Every await of the handler is one action;   *)
(* what the handler does between two awaits is local to the request and    *)
(* belongs to the action of the await before it.                           *)
(***************************************************************************)
EXTENDS Integers, Sequences, FiniteSets

(***************************************************************************)
(* Bounds of the model.                                                    *)
(***************************************************************************)
MaxInFlight == 2      \* requests the server handles at the same time
MaxQuota == 2         \* largest max_eval_per_day a config is given
MaxLog == 4           \* rows of evaluations after which no new request starts
MaxNow == 2           \* last instant of the clock
DayLen == 2           \* instants per calendar day
MaxBatch == 2         \* rows a seed script inserts at once
DefaultMaxEvalPerDay == 10000   \* eval_configs.max_eval_per_day DEFAULT

(***************************************************************************)
(* Values.                                                                 *)
(***************************************************************************)
Null == [null |-> TRUE]     \* JS null / undefined and SQL NULL, for records
NullCount == -1             \* the null count of a failed count query
NullScore == <<>>           \* SQL NULL in evaluations.score
NoUser == "none"            \* user of a token the identity provider rejects
NoDraw == -1                \* Math.random() was not called

Slots == 1 .. MaxInFlight
Users == {"u1", "u2"}

\* Authorization headers, as the parts String.replace tells apart.
NoHeader == <<>>
AuthHeaders ==
  {NoHeader, <<"Bearer ", "jwt-u1">>, <<"Bearer ", "jwt-expired">>, <<"jwt-u1">>}

\* authHeader.replace("Bearer ", ""): the first occurrence is removed.
BearerReplace(authHeader) ==
  IF authHeader # <<>> /\ Head(authHeader) = "Bearer "
    THEN Tail(authHeader)
    ELSE authHeader

\* supabaseClient.auth.getUser(token): the owner of a valid token.
TokenUser(token) ==
  IF token = <<"jwt-u1">> THEN "u1"
  ELSE IF token = <<"jwt-u2">> THEN "u2"
  ELSE NoUser

Rates == {0, 50, 100}           \* sample_rate_pct values tried
Draws == {0, 49, 50, 99}        \* floor(Math.random() * 100) values tried

Configs ==
  [run_policy : {"always", "sampled"}, sample_rate_pct : Rates,
   obfuscate_pii : {FALSE}, max_eval_per_day : 1 .. MaxQuota]

\* Request bodies: text that is no JSON, and EvalPayload objects.
Garbage == [garbage |-> TRUE]
PayloadFull ==
  [interaction_id |-> "int_1", prompt |-> "p", response |-> "r", score |-> 0,
   latency_ms |-> 120, flags |-> <<"needs-review">>, pii_tokens_redacted |-> 3]
PayloadBare ==
  [interaction_id |-> "int_1", prompt |-> "p", response |-> "r",
   latency_ms |-> 120]
Bodies == {Garbage, PayloadBare}

\* An EvalPayload whose optional fields are there and falsy but for the score.
PayloadZeroes ==
  [interaction_id |-> "int_1", prompt |-> "p", response |-> "r", score |-> 1,
   latency_ms |-> 120, flags |-> <<>>, pii_tokens_redacted |-> 0]

\* PayloadBare with fields an EvalPayload does not have: another owner, and a
\* creation time after the last instant of the clock.
PayloadSpoof ==
  [interaction_id |-> "int_1", prompt |-> "p", response |-> "r",
   latency_ms |-> 120, user_id |-> "u2", created_at |-> MaxNow + 1]

Has(payload, field) == field \in DOMAIN payload

(***************************************************************************)
(* State.                                                                  *)
(***************************************************************************)
VARIABLES
  evaluations,    \* public.evaluations: the rows, in insertion order
  eval_configs,   \* public.eval_configs: user_id -> row, or Null
  accounts,       \* auth.users: the ids of the users who have signed up
  now,            \* the clock (server and database)
  pc,             \* per request: the await it stands at
  method,         \* per request: req.method
  token,          \* per request: authHeader with "Bearer " removed
  body,           \* per request: the body req.json() will read
  user,           \* per request: data.user of auth.getUser
  config,         \* per request: the eval_configs row it read
  draw,           \* per request: floor(Math.random() * 100), or NoDraw
  today,          \* per request: midnight of the day the handler saw
  count,          \* per request: count of the daily count query
  response,       \* per request: the Response returned, or Null
  invoked,        \* per request: the collaborators it called, in order
  written         \* per request: ids of the rows it inserted

vars ==
  <<evaluations, eval_configs, accounts, now, pc, method, token, body, user,
    config, draw, today, count, response, invoked, written>>

locals ==
  <<method, token, body, user, config, draw, today, count, response,
    invoked, written>>

(***************************************************************************)
(* Pure parts of the handler.                                              *)
(***************************************************************************)
\* Faulty variant: the last DayLen instants in place of the calendar day.
StartOfDayRolling(t) == t - DayLen

\* today.setHours(0, 0, 0, 0): midnight of the day of instant t.
StartOfDay(t) == t - (t % DayLen)

\* Faulty variant: the policy is tested for truthiness, not for "sampled".
SamplingAppliesAlways(cfg) == cfg.run_policy # ""

\* config.run_policy === "sampled"
SamplingApplies(cfg) == cfg.run_policy = "sampled"

\* Faulty variant: the rate is taken for a fraction of 1.
shouldProcessFraction(d, cfg) == d < cfg.sample_rate_pct \div 100

\* Faulty variant: the comparison is turned around.
shouldProcessReversed(d, cfg) == cfg.sample_rate_pct < d

\* Faulty variant: <= in place of <.
shouldProcessInclusive(d, cfg) == d <= cfg.sample_rate_pct

\* Math.random() * 100 < config.sample_rate_pct
shouldProcess(d, cfg) == d < cfg.sample_rate_pct

\* Faulty variant: only rows that came through the handler are counted.
CountSinceIngested(rows, userId, since) ==
  Cardinality({i \in 1 .. Len(rows) :
                 /\ rows[i].user_id = userId /\ rows[i].created_at >= since
                 /\ rows[i].interaction_id # "int_seed"})

\* Faulty variant: gt in place of gte.
CountSinceExclusive(rows, userId, since) ==
  Cardinality({i \in 1 .. Len(rows) :
                 rows[i].user_id = userId /\ rows[i].created_at > since})

\* Faulty variant: the eq("user_id", ...) filter is missing.
CountSinceAnyUser(rows, userId, since) ==
  Cardinality({i \in 1 .. Len(rows) : rows[i].created_at >= since})

\* .eq("user_id", user.id).gte("created_at", today.toISOString()), count exact
CountSince(rows, userId, since) ==
  Cardinality({i \in 1 .. Len(rows) :
                 rows[i].user_id = userId /\ rows[i].created_at >= since})

\* Faulty variant: && in place of ||.
AuthFailedBoth(authError, u) == authError /\ u = NoUser

\* authError || !user
AuthFailed(authError, u) == authError \/ u = NoUser

\* Faulty variant: > in place of >=.
LimitReachedOffByOne(cnt, cfg) == cnt # NullCount /\ cnt > cfg.max_eval_per_day

\* count !== null && count >= config.max_eval_per_day
LimitReached(cnt, cfg) == cnt # NullCount /\ cnt >= cfg.max_eval_per_day

\* Faulty variant: flags and pii_tokens_redacted of the payload are left out,
\* and the columns take their defaults.
InsertObjectDefaultsOnly(userId, payload) ==
  [user_id |-> userId,
   interaction_id |-> payload.interaction_id,
   prompt |-> payload.prompt,
   response |-> payload.response,
   score |-> IF Has(payload, "score") THEN <<payload.score>> ELSE NullScore,
   latency_ms |-> payload.latency_ms,
   flags |-> <<>>,
   pii_tokens_redacted |-> 0]

\* Faulty variant: score: payload.score || null.
InsertObjectFalsyScore(userId, payload) ==
  [user_id |-> userId,
   interaction_id |-> payload.interaction_id,
   prompt |-> payload.prompt,
   response |-> payload.response,
   score |-> IF Has(payload, "score") /\ payload.score # 0
               THEN <<payload.score>> ELSE NullScore,
   latency_ms |-> payload.latency_ms,
   flags |-> IF Has(payload, "flags") THEN payload.flags ELSE <<>>,
   pii_tokens_redacted |->
     IF Has(payload, "pii_tokens_redacted") /\ payload.pii_tokens_redacted # 0
       THEN payload.pii_tokens_redacted ELSE 0]

\* Faulty variant: the payload is spread into the object, after user_id.
InsertObjectSpread(userId, payload) ==
  LET obj == [user_id |-> userId,
              interaction_id |-> payload.interaction_id,
              prompt |-> payload.prompt,
              response |-> payload.response,
              score |-> IF Has(payload, "score") THEN <<payload.score>>
                        ELSE NullScore,
              latency_ms |-> payload.latency_ms,
              flags |-> IF Has(payload, "flags") THEN payload.flags ELSE <<>>,
              pii_tokens_redacted |->
                IF Has(payload, "pii_tokens_redacted") /\
                   payload.pii_tokens_redacted # 0
                  THEN payload.pii_tokens_redacted ELSE 0]
      spread == DOMAIN payload \cap {"user_id", "created_at"}
  IN  [f \in DOMAIN obj \cup spread |->
         IF f \in spread THEN payload[f] ELSE obj[f]]

\* The object handed to insert(): user_id from the token's user, the payload
\* fields by name, flags and pii_tokens_redacted with their || defaults.  An
\* undefined score is left out by JSON.stringify.
InsertObject(userId, payload) ==
  [user_id |-> userId,
   interaction_id |-> payload.interaction_id,
   prompt |-> payload.prompt,
   response |-> payload.response,
   score |-> IF Has(payload, "score") THEN <<payload.score>> ELSE NullScore,
   latency_ms |-> payload.latency_ms,
   flags |-> IF Has(payload, "flags") THEN payload.flags ELSE <<>>,
   pii_tokens_redacted |->
     IF Has(payload, "pii_tokens_redacted") /\ payload.pii_tokens_redacted # 0
       THEN payload.pii_tokens_redacted ELSE 0]

\* The row the table stores: id by gen_random_uuid(); created_at by now()
\* where the object gives none.
NewRow(rows, obj, t) ==
  [id |-> Len(rows) + 1,
   user_id |-> obj.user_id,
   interaction_id |-> obj.interaction_id,
   prompt |-> obj.prompt,
   response |-> obj.response,
   score |-> obj.score,
   latency_ms |-> obj.latency_ms,
   flags |-> obj.flags,
   pii_tokens_redacted |-> obj.pii_tokens_redacted,
   created_at |-> IF Has(obj, "created_at") THEN obj.created_at ELSE t]

\* Responses of the handler.
Resp(status, kind, text, row) ==
  [status |-> status, kind |-> kind, text |-> text, evaluation |-> row]
\* Faulty variant: the error text goes under the key message.
ErrorRespAsMessage(status, text) == Resp(status, "message", text, Null)
ErrorResp(status, text) == Resp(status, "error", text, Null)
MessageResp(status, text) == Resp(status, "message", text, Null)
SuccessResp(row) == Resp(201, "success", "", row)
PreflightResp == Resp(200, "none", "", Null)

(***************************************************************************)
(* The handler, one action per await.                                      *)
(***************************************************************************)
InFlight == {c \in Slots : pc[c] \notin {"idle", "done"}}

Finish(c, resp) ==
  /\ pc' = [pc EXCEPT ![c] = "done"]
  /\ response' = [response EXCEPT ![c] = resp]

\* A request arrives: lines 18-39, up to the await of auth.getUser.
Request(c, m, authHeader, b) ==
  /\ pc[c] = "idle"
  /\ Len(evaluations) + Cardinality(InFlight) < MaxLog
  /\ method' = [method EXCEPT ![c] = m]
  /\ body' = [body EXCEPT ![c] = b]
  /\ IF m = "OPTIONS"
       THEN /\ Finish(c, PreflightResp)
            /\ UNCHANGED token
       ELSE IF authHeader = NoHeader
         THEN /\ Finish(c, ErrorResp(401, "Missing authorization header"))
              /\ UNCHANGED token
         ELSE /\ token' = [token EXCEPT ![c] = BearerReplace(authHeader)]
              /\ pc' = [pc EXCEPT ![c] = "getUser"]
              /\ UNCHANGED response
  /\ UNCHANGED <<evaluations, eval_configs, accounts, now, user, config, draw,
                 today, count, invoked, written>>

\* auth.getUser answers: lines 39-53, up to the await of the config query.
\* authError: the provider answers with an error.
GetUser(c, authError) ==
  /\ pc[c] = "getUser"
  /\ invoked' = [invoked EXCEPT ![c] = Append(@, "getUser")]
  /\ LET u == IF authError \/ TokenUser(token[c]) \notin accounts
                THEN NoUser ELSE TokenUser(token[c]) IN
       /\ user' = [user EXCEPT ![c] = u]
       /\ IF AuthFailed(authError, u)
            THEN Finish(c, ErrorResp(401, "Unauthorized"))
            ELSE /\ pc' = [pc EXCEPT ![c] = "config"]
                 /\ UNCHANGED response
  /\ UNCHANGED <<evaluations, eval_configs, accounts, now, method, token,
                 body, config, draw, today, count, written>>

\* Faulty variant: the return of the skip branch is missing.
SampledOutFallThrough(c) ==
  /\ today' = [today EXCEPT ![c] = StartOfDay(now)]
  /\ pc' = [pc EXCEPT ![c] = "count"]
  /\ UNCHANGED response

\* Faulty variant: the skip is answered as a creation.
SampledOutCreated(c) ==
  /\ Finish(c, MessageResp(201, "Evaluation skipped due to sampling"))
  /\ UNCHANGED today

\* The sampling gate says no: lines 65-71.
SampledOutBranch(c) ==
  /\ Finish(c, MessageResp(200, "Evaluation skipped due to sampling"))
  /\ UNCHANGED today

\* Faulty variant: the return of the no-config branch is missing.
NoConfigFallThrough(c) ==
  /\ today' = [today EXCEPT ![c] = StartOfDay(now)]
  /\ pc' = [pc EXCEPT ![c] = "count"]
  /\ UNCHANGED response

\* Faulty variant: a lookup without a row is answered as a server error.
NoConfigServerError(c) ==
  /\ Finish(c, ErrorResp(500, "No evaluation config found"))
  /\ UNCHANGED today

\* No config row was read: lines 55-60.
NoConfigBranch(c) ==
  /\ Finish(c, ErrorResp(400, "No evaluation config found"))
  /\ UNCHANGED today

\* The handler goes on to the daily limit: lines 75-82.
CountBranch(c) ==
  /\ today' = [today EXCEPT ![c] = StartOfDay(now)]
  /\ pc' = [pc EXCEPT ![c] = "count"]
  /\ UNCHANGED response

\* The config query answers: lines 49-82, up to the await of the count query.
\* queryError: the query fails, and data is null.  d: the draw, if one is made.
ConfigLookup(c, queryError, d) ==
  /\ pc[c] = "config"
  /\ LET cfg == IF queryError \/ user[c] \notin DOMAIN eval_configs
                  THEN Null ELSE eval_configs[user[c]] IN
       /\ config' = [config EXCEPT ![c] = cfg]
       /\ IF cfg = Null
            THEN /\ NoConfigBranch(c)
                 /\ d = NoDraw
                 /\ invoked' = [invoked EXCEPT ![c] = Append(@, "config")]
                 /\ UNCHANGED <<draw, today>>
            ELSE IF SamplingApplies(cfg)
              THEN /\ d # NoDraw
                   /\ draw' = [draw EXCEPT ![c] = d]
                   /\ invoked' =
                        [invoked EXCEPT ![c] = Append(Append(@, "config"), "random")]
                   /\ IF ~shouldProcess(d, cfg)
                        THEN SampledOutBranch(c)
                        ELSE CountBranch(c)
              ELSE /\ d = NoDraw
                   /\ invoked' = [invoked EXCEPT ![c] = Append(@, "config")]
                   /\ CountBranch(c)
                   /\ UNCHANGED draw
  /\ UNCHANGED <<evaluations, eval_configs, accounts, now, method, token,
                 body, user, count, written>>

\* Faulty variant: a failed count query sends the handler back to the config
\* lookup.
CountQueryStartingOver(c, queryError) ==
  /\ pc[c] = "count"
  /\ IF queryError
       THEN /\ pc' = [pc EXCEPT ![c] = "config"]
            /\ invoked' = [invoked EXCEPT ![c] = <<"getUser">>]
            /\ draw' = [draw EXCEPT ![c] = NoDraw]
            /\ UNCHANGED <<count, response>>
       ELSE /\ invoked' = [invoked EXCEPT ![c] = Append(@, "count")]
            /\ LET cnt == CountSince(evaluations, user[c], today[c]) IN
                 /\ count' = [count EXCEPT ![c] = cnt]
                 /\ IF cnt >= config[c].max_eval_per_day
                      THEN Finish(c, ErrorResp(429, "Daily evaluation limit reached"))
                      ELSE /\ pc' = [pc EXCEPT ![c] = "json"]
                           /\ UNCHANGED response
            /\ UNCHANGED draw
  /\ UNCHANGED <<evaluations, eval_configs, accounts, now, method, token,
                 body, user, config, today, written>>

\* Faulty variant: the limit is taken from the table at the time of the check.
CountQueryRereading(c, queryError) ==
  /\ pc[c] = "count"
  /\ invoked' = [invoked EXCEPT ![c] = Append(@, "count")]
  /\ LET cnt == IF queryError THEN NullCount
                ELSE CountSince(evaluations, user[c], today[c]) IN
       /\ count' = [count EXCEPT ![c] = cnt]
       /\ IF LimitReached(cnt, eval_configs[user[c]])
            THEN Finish(c, ErrorResp(429, "Daily evaluation limit reached"))
            ELSE /\ pc' = [pc EXCEPT ![c] = "json"]
                 /\ UNCHANGED response
  /\ UNCHANGED <<evaluations, eval_configs, accounts, now, method, token,
                 body, user, config, draw, today, written>>

\* The count query answers: lines 78-91, up to the await of req.json().
\* queryError: the query fails, and count is null.
CountQuery(c, queryError) ==
  /\ pc[c] = "count"
  /\ invoked' = [invoked EXCEPT ![c] = Append(@, "count")]
  /\ LET cnt == IF queryError THEN NullCount
                ELSE CountSince(evaluations, user[c], today[c]) IN
       /\ count' = [count EXCEPT ![c] = cnt]
       /\ IF LimitReached(cnt, config[c])
            THEN Finish(c, ErrorResp(429, "Daily evaluation limit reached"))
            ELSE /\ pc' = [pc EXCEPT ![c] = "json"]
                 /\ UNCHANGED response
  /\ UNCHANGED <<evaluations, eval_configs, accounts, now, method, token,
                 body, user, config, draw, today, written>>

\* Faulty variant: a body that is no JSON is answered as a bad request.
ReqJsonBadRequest(c) ==
  /\ pc[c] = "json"
  /\ IF body[c] = Garbage
       THEN Finish(c, ErrorResp(400, "Unexpected token"))
       ELSE /\ pc' = [pc EXCEPT ![c] = "insert"]
            /\ UNCHANGED response
  /\ UNCHANGED <<evaluations, eval_configs, accounts, now, method, token,
                 body, user, config, draw, today, count, invoked, written>>

\* req.json() answers: lines 91-107, up to the await of the insert; a body
\* that is no JSON throws, and the catch of lines 123-130 answers 500.
ReqJson(c) ==
  /\ pc[c] = "json"
  /\ IF body[c] = Garbage
       THEN Finish(c, ErrorResp(500, "Unexpected token"))
       ELSE /\ pc' = [pc EXCEPT ![c] = "insert"]
            /\ UNCHANGED response
  /\ UNCHANGED <<evaluations, eval_configs, accounts, now, method, token,
                 body, user, config, draw, today, count, invoked, written>>

\* Faulty variant: insertError is not looked at.
InsertUnchecked(c, insertError) ==
  /\ pc[c] = "insert"
  /\ invoked' = [invoked EXCEPT ![c] = Append(@, "insert")]
  /\ IF insertError
       THEN /\ Finish(c, SuccessResp(Null))
            /\ UNCHANGED <<evaluations, written>>
       ELSE LET row == NewRow(evaluations, InsertObject(user[c], body[c]), now) IN
              /\ evaluations' = Append(evaluations, row)
              /\ written' = [written EXCEPT ![c] = @ \cup {row.id}]
              /\ Finish(c, SuccessResp(row))
  /\ UNCHANGED <<eval_configs, accounts, now, method, token, body, user,
                 config, draw, today, count>>

\* Faulty variant: an upsert on (user_id, interaction_id) in place of the
\* insert.
InsertUpserting(c, insertError) ==
  /\ pc[c] = "insert"
  /\ invoked' = [invoked EXCEPT ![c] = Append(@, "insert")]
  /\ IF insertError
       THEN /\ Finish(c, ErrorResp(500, "insert failed"))
            /\ UNCHANGED <<evaluations, written>>
       ELSE LET obj == InsertObject(user[c], body[c])
                same == {i \in 1 .. Len(evaluations) :
                           /\ evaluations[i].user_id = obj.user_id
                           /\ evaluations[i].interaction_id = obj.interaction_id}
            IN  IF same = {}
                  THEN LET row == NewRow(evaluations, obj, now) IN
                         /\ evaluations' = Append(evaluations, row)
                         /\ written' = [written EXCEPT ![c] = @ \cup {row.id}]
                         /\ Finish(c, SuccessResp(row))
                  ELSE LET i == CHOOSE k \in same : TRUE
                           row == [NewRow(evaluations, obj, now)
                                     EXCEPT !.id = evaluations[i].id]
                       IN  /\ evaluations' = [evaluations EXCEPT ![i] = row]
                           /\ written' = [written EXCEPT ![c] = @ \cup {row.id}]
                           /\ Finish(c, SuccessResp(row))
  /\ UNCHANGED <<eval_configs, accounts, now, method, token, body, user,
                 config, draw, today, count>>

\* Faulty variant: a failed insert is tried a second time.
InsertRetrying(c, insertError) ==
  /\ pc[c] = "insert"
  /\ invoked' =
       [invoked EXCEPT ![c] =
          IF insertError THEN Append(Append(@, "insert"), "insert")
          ELSE Append(@, "insert")]
  /\ LET row == NewRow(evaluations, InsertObject(user[c], body[c]), now) IN
       /\ evaluations' = Append(evaluations, row)
       /\ written' = [written EXCEPT ![c] = @ \cup {row.id}]
       /\ Finish(c, SuccessResp(row))
  /\ UNCHANGED <<eval_configs, accounts, now, method, token, body, user,
                 config, draw, today, count>>

\* The insert answers: lines 94-122.  insertError: the insert fails.
Insert(c, insertError) ==
  /\ pc[c] = "insert"
  /\ invoked' = [invoked EXCEPT ![c] = Append(@, "insert")]
  /\ IF insertError
       THEN /\ Finish(c, ErrorResp(500, "insert failed"))
            /\ UNCHANGED <<evaluations, written>>
       ELSE LET row == NewRow(evaluations, InsertObject(user[c], body[c]), now) IN
              /\ evaluations' = Append(evaluations, row)
              /\ written' = [written EXCEPT ![c] = @ \cup {row.id}]
              /\ Finish(c, SuccessResp(row))
  /\ UNCHANGED <<eval_configs, accounts, now, method, token, body, user,
                 config, draw, today, count>>

\* The response is delivered and the request is over.
Done(c) ==
  /\ pc[c] = "done"
  /\ pc' = [pc EXCEPT ![c] = "idle"]
  /\ method' = [method EXCEPT ![c] = "POST"]
  /\ token' = [token EXCEPT ![c] = <<>>]
  /\ body' = [body EXCEPT ![c] = Garbage]
  /\ user' = [user EXCEPT ![c] = NoUser]
  /\ config' = [config EXCEPT ![c] = Null]
  /\ draw' = [draw EXCEPT ![c] = NoDraw]
  /\ today' = [today EXCEPT ![c] = 0]
  /\ count' = [count EXCEPT ![c] = NullCount]
  /\ response' = [response EXCEPT ![c] = Null]
  /\ invoked' = [invoked EXCEPT ![c] = <<>>]
  /\ written' = [written EXCEPT ![c] = {}]
  /\ UNCHANGED <<evaluations, eval_configs, accounts, now>>

\* Time passes.
Tick ==
  /\ now < MaxNow
  /\ now' = now + 1
  /\ UNCHANGED <<evaluations, eval_configs, accounts, pc, locals>>

(***************************************************************************)
(* What else writes the tables: the signup trigger, the Settings page and  *)
(* the seed scripts.                                                       *)
(***************************************************************************)
\* The row the signup trigger inserts: the column defaults of eval_configs.
DefaultConfig ==
  [run_policy |-> "always", sample_rate_pct |-> 100, obfuscate_pii |-> FALSE,
   max_eval_per_day |-> DefaultMaxEvalPerDay]

\* Faulty variant: the trigger does not insert into eval_configs.
SignUpProfileOnly(u) ==
  /\ u \notin accounts
  /\ accounts' = accounts \cup {u}
  /\ UNCHANGED <<evaluations, eval_configs, now, pc, locals>>

\* A user signs up: the row of auth.users and, by the trigger
\* on_auth_user_created, the eval_configs row of the user.
SignUp(u) ==
  /\ u \notin accounts
  /\ accounts' = accounts \cup {u}
  /\ eval_configs' = [eval_configs EXCEPT ![u] = DefaultConfig]
  /\ UNCHANGED <<evaluations, now, pc, locals>>

\* Save on the Settings page: update(config).eq("user_id", user.id) changes
\* the row of the user where there is one.
HandleSave(u, cfg) ==
  /\ u \in accounts
  /\ eval_configs' =
       [eval_configs EXCEPT ![u] = IF @ = Null THEN Null ELSE cfg]
  /\ UNCHANGED <<evaluations, accounts, now, pc, locals>>

\* A row of the seed scripts: the fields of the script, created_at given.
SeedObject(u, t) ==
  [user_id |-> u, interaction_id |-> "int_seed", prompt |-> "p",
   response |-> "r", score |-> <<1>>, latency_ms |-> 50, flags |-> <<>>,
   pii_tokens_redacted |-> 0, created_at |-> t]

RECURSIVE SeedRows(_, _, _)
SeedRows(rows, u, ts) ==
  IF ts = <<>> THEN rows
  ELSE SeedRows(Append(rows, NewRow(rows, SeedObject(u, Head(ts)), now)),
                u, Tail(ts))

\* A seed script runs: one insert of a batch of rows for a user found in
\* auth.users, each row with a created_at of randomDateWithin, not after now.
\* ts: the created_at values of the batch.
SeedInsert(u, ts) ==
  /\ u \in accounts
  /\ ts # <<>>
  /\ Len(evaluations) + Cardinality(InFlight) + Len(ts) <= MaxLog
  /\ \A i \in 1 .. Len(ts) : ts[i] <= now
  /\ evaluations' = SeedRows(evaluations, u, ts)
  /\ UNCHANGED <<eval_configs, accounts, now, pc, locals>>

(***************************************************************************)
(* Specifications.                                                         *)
(***************************************************************************)
InitLocals ==
  /\ pc = [c \in Slots |-> "idle"]
  /\ method = [c \in Slots |-> "POST"]
  /\ token = [c \in Slots |-> <<>>]
  /\ body = [c \in Slots |-> Garbage]
  /\ user = [c \in Slots |-> NoUser]
  /\ config = [c \in Slots |-> Null]
  /\ draw = [c \in Slots |-> NoDraw]
  /\ today = [c \in Slots |-> 0]
  /\ count = [c \in Slots |-> NullCount]
  /\ response = [c \in Slots |-> Null]
  /\ invoked = [c \in Slots |-> <<>>]
  /\ written = [c \in Slots |-> {}]

\* u1 has any config or none; u2 has the row of the signup trigger.
Init ==
  /\ evaluations = <<>>
  /\ \E cfg \in Configs \cup {Null} :
       eval_configs = [u \in Users |-> IF u = "u1" THEN cfg ELSE DefaultConfig]
  /\ accounts = Users
  /\ now = 0
  /\ InitLocals

Handle(c) ==
  \/ \E authError \in BOOLEAN : GetUser(c, authError)
  \/ \E queryError \in BOOLEAN, d \in Draws \cup {NoDraw} :
       ConfigLookup(c, queryError, d)
  \/ \E queryError \in BOOLEAN : CountQuery(c, queryError)
  \/ ReqJson(c)
  \/ \E insertError \in BOOLEAN : Insert(c, insertError)

\* Requests of one user, served concurrently.
RaceHeaders == {<<"Bearer ", "jwt-u1">>}
RaceBodies == {PayloadBare}

RaceHandle(c) ==
  \/ GetUser(c, FALSE)
  \/ \E d \in Draws \cup {NoDraw} : ConfigLookup(c, FALSE, d)
  \/ \E queryError \in BOOLEAN : CountQuery(c, queryError)
  \/ ReqJson(c)
  \/ \E insertError \in BOOLEAN : Insert(c, insertError)

Next ==
  \/ \E c \in Slots, h \in RaceHeaders, b \in RaceBodies :
       Request(c, "POST", h, b)
  \/ \E c \in Slots : RaceHandle(c)
  \/ \E c \in Slots : Done(c)

RaceConfigs ==
  [run_policy : {"always", "sampled"}, sample_rate_pct : {50},
   obfuscate_pii : {FALSE}, max_eval_per_day : 1 .. MaxQuota]

RaceInit ==
  /\ evaluations = <<>>
  /\ \E cfg \in RaceConfigs :
       eval_configs = [u \in Users |-> IF u = "u1" THEN cfg ELSE DefaultConfig]
  /\ accounts = Users
  /\ now = 0
  /\ InitLocals

Spec == RaceInit /\ [][Next]_vars

\* Requests of any kind, served one after another, and the clock.
SeqNext ==
  \/ \E c \in Slots, m \in {"POST", "OPTIONS"}, h \in AuthHeaders, b \in Bodies :
       /\ \A k \in Slots : pc[k] = "idle"
       /\ Request(c, m, h, b)
  \/ \E c \in Slots : Handle(c)
  \/ \E c \in Slots : Done(c)
  \/ Tick

SeqSpec == Init /\ [][SeqNext]_vars

\* Every await of the handler settles: the collaborator answers, with a result
\* or with an error, and the event loop resumes the handler.
LiveSpec == SeqSpec /\ \A c \in Slots : WF_vars(Handle(c))

\* Requests of two users, served concurrently.  u1 has a config or none, u2
\* has one.
UsersHeaders == {<<"Bearer ", "jwt-u1">>, <<"Bearer ", "jwt-u2">>}

UsersHandle(c) ==
  \/ GetUser(c, FALSE)
  \/ ConfigLookup(c, FALSE, NoDraw)
  \/ CountQuery(c, FALSE)
  \/ ReqJson(c)
  \/ Insert(c, FALSE)

UsersNext ==
  \/ \E c \in Slots, h \in UsersHeaders : Request(c, "POST", h, PayloadBare)
  \/ \E c \in Slots : UsersHandle(c)
  \/ \E c \in Slots : Done(c)

UsersConfigs ==
  [run_policy : {"always"}, sample_rate_pct : {100}, obfuscate_pii : {FALSE},
   max_eval_per_day : 1 .. MaxQuota]

UsersInit ==
  /\ evaluations = <<>>
  /\ \E cfg1 \in UsersConfigs \cup {Null}, cfg2 \in UsersConfigs :
       eval_configs = [u \in Users |-> IF u = "u1" THEN cfg1 ELSE cfg2]
  /\ accounts = Users
  /\ now = 0
  /\ InitLocals

UsersSpec == UsersInit /\ [][UsersNext]_vars

\* Requests of u1 with the payloads, served one after another, and the clock.
PayloadBodies == {PayloadBare, PayloadFull, PayloadZeroes, PayloadSpoof}

PayloadNext ==
  \/ \E c \in Slots, b \in PayloadBodies :
       /\ \A k \in Slots : pc[k] = "idle"
       /\ Request(c, "POST", <<"Bearer ", "jwt-u1">>, b)
  \/ \E c \in Slots : UsersHandle(c)
  \/ \E c \in Slots : Done(c)
  \/ Tick

PayloadSpec == UsersInit /\ [][PayloadNext]_vars

\* Requests of two users, served one after another, and the clock.
DayNext ==
  \/ \E c \in Slots, h \in UsersHeaders :
       /\ \A k \in Slots : pc[k] = "idle"
       /\ Request(c, "POST", h, PayloadBare)
  \/ \E c \in Slots : UsersHandle(c)
  \/ \E c \in Slots : Done(c)
  \/ Tick

DaySpec == UsersInit /\ [][DayNext]_vars

\* Settings saves and requests of u1, served concurrently.
SettingsConfigs ==
  UsersConfigs \cup
  [run_policy : {"sampled"}, sample_rate_pct : {50}, obfuscate_pii : {FALSE},
   max_eval_per_day : {1}]

SettingsHandle(c) ==
  \/ GetUser(c, FALSE)
  \/ \E d \in {NoDraw, 49, 50} : ConfigLookup(c, FALSE, d)
  \/ CountQuery(c, FALSE)
  \/ ReqJson(c)
  \/ Insert(c, FALSE)

SettingsNext ==
  \/ \E cfg \in SettingsConfigs : HandleSave("u1", cfg)
  \/ \E c \in Slots : Request(c, "POST", <<"Bearer ", "jwt-u1">>, PayloadBare)
  \/ \E c \in Slots : SettingsHandle(c)
  \/ \E c \in Slots : Done(c)

\* u1 has a config with a small limit, u2 the row of the signup trigger.
SeedInit ==
  /\ evaluations = <<>>
  /\ \E cfg \in UsersConfigs :
       eval_configs = [u \in Users |-> IF u = "u1" THEN cfg ELSE DefaultConfig]
  /\ accounts = Users
  /\ now = 0
  /\ InitLocals

SettingsSpec == SeedInit /\ [][SettingsNext]_vars

\* Signups, Settings saves and requests of two users, served one after
\* another.
AccountNext ==
  \/ \E u \in Users : SignUp(u)
  \/ \E u \in Users, cfg \in SettingsConfigs : HandleSave(u, cfg)
  \/ \E c \in Slots, h \in UsersHeaders :
       /\ \A k \in Slots : pc[k] = "idle"
       /\ Request(c, "POST", h, PayloadBare)
  \/ \E c \in Slots : SettingsHandle(c)
  \/ \E c \in Slots : Done(c)

\* Before the first signup.
AccountInit ==
  /\ evaluations = <<>>
  /\ eval_configs = [u \in Users |-> Null]
  /\ accounts = {}
  /\ now = 0
  /\ InitLocals

AccountSpec == AccountInit /\ [][AccountNext]_vars

\* Seed runs and requests of u1, served one after another, and the clock.
SeedBatches == UNION {[1 .. n -> 0 .. MaxNow] : n \in 1 .. MaxBatch}

SeedNext ==
  \/ \E ts \in SeedBatches : SeedInsert("u1", ts)
  \/ \E c \in Slots :
       /\ \A k \in Slots : pc[k] = "idle"
       /\ Request(c, "POST", <<"Bearer ", "jwt-u1">>, PayloadBare)
  \/ \E c \in Slots : UsersHandle(c)
  \/ \E c \in Slots : Done(c)
  \/ Tick

SeedSpec == SeedInit /\ [][SeedNext]_vars

(***************************************************************************)
(* Vocabulary of the claims.                                               *)
(***************************************************************************)
\* An admit call: a POST request that has arrived and is not yet forgotten.
Admit(c) == pc[c] # "idle" /\ method[c] = "POST"
Ended(c) == pc[c] = "done" /\ method[c] = "POST"

\* The terminal outcomes, read off the response.
Accepted(r) == r.status = 201 /\ r.kind = "success"
Skipped(r) == r.status = 200 /\ r.kind = "message"
Unauthorized(r) == r.status = 401 /\ r.kind = "error"
NoConfigFound(r) == r.status = 400 /\ r.kind = "error"
QuotaExceeded(r) == r.status = 429 /\ r.kind = "error"
ServerError(r) == r.status = 500 /\ r.kind = "error"
Rejected(r) ==
  Unauthorized(r) \/ NoConfigFound(r) \/ QuotaExceeded(r) \/ ServerError(r)

IsPrefix(s, t) == Len(s) <= Len(t) /\ \A i \in 1 .. Len(s) : s[i] = t[i]
Sampled(cfg) == cfg # Null /\ cfg.run_policy = "sampled"

\* The collaborators in the order of the contract; the sampling gate is part
\* of it only under the sampled policy.
StepOrder(cfg) ==
  IF Sampled(cfg)
    THEN <<"getUser", "config", "random", "count", "insert">>
    ELSE <<"getUser", "config", "count", "insert">>

\* The collaborators an ended call has invoked, by its outcome.
StepsOf(c) ==
  LET r == response[c]
      gate == IF Sampled(config[c]) THEN <<"random">> ELSE <<>>
  IN  IF Unauthorized(r) /\ token[c] = <<>> THEN <<>>
      ELSE IF Unauthorized(r) THEN <<"getUser">>
      ELSE IF NoConfigFound(r) THEN <<"getUser", "config">>
      ELSE IF Skipped(r) THEN <<"getUser", "config", "random">>
      ELSE IF QuotaExceeded(r) THEN <<"getUser", "config">> \o gate \o <<"count">>
      ELSE IF ServerError(r) /\ body[c] = Garbage
        THEN <<"getUser", "config">> \o gate \o <<"count">>
      ELSE <<"getUser", "config">> \o gate \o <<"count", "insert">>

\* The rows of userId created in the day of instant t.
RowsOfDay(userId, t) ==
  {i \in 1 .. Len(evaluations) :
     /\ evaluations[i].user_id = userId
     /\ StartOfDay(evaluations[i].created_at) = StartOfDay(t)}

\* A step of request c.
StepOf(c) == pc'[c] # pc[c]

(***************************************************************************)
(* C1.  Within one admit call the collaborators are invoked in the fixed   *)
(* order identity provider, config lookup, random draw (only under the     *)
(* sampled policy), daily count, insert; each at most once; and an ended   *)
(* call has invoked exactly the steps up to the one that ended it.         *)
(***************************************************************************)
C1_FixedOrder ==
  \A c \in Slots :
    /\ IsPrefix(invoked[c], StepOrder(config[c]))
    /\ Ended(c) => invoked[c] = StepsOf(c)
    /\ pc[c] = "getUser" => invoked[c] = <<>>
    /\ pc[c] = "config" => invoked[c] = <<"getUser">>
    /\ pc[c] = "count" => Len(invoked[c]) = Len(StepOrder(config[c])) - 2
    /\ pc[c] \in {"json", "insert"} =>
         Len(invoked[c]) = Len(StepOrder(config[c])) - 1

\* An accepted call under the sampled policy has gone through all five steps.
C1_Witness ==
  \E c \in Slots :
    /\ Ended(c) /\ Accepted(response[c])
    /\ invoked[c] = <<"getUser", "config", "random", "count", "insert">>

(***************************************************************************)
(* C3.  A call whose credential is missing or is rejected by the identity  *)
(* provider ends in 401, invokes neither the config lookup nor the count   *)
(* nor the insert, and no step of it changes the evaluation log.           *)
(***************************************************************************)
BadCredential(c) ==
  /\ Admit(c)
  /\ \/ token[c] = <<>>
     \/ TokenUser(token[c]) = NoUser
     \/ pc[c] # "getUser" /\ user[c] = NoUser

C3_UnauthorizedState ==
  \A c \in Slots :
    BadCredential(c) =>
      /\ pc[c] \in {"getUser", "done"}
      /\ pc[c] = "done" => Unauthorized(response[c])
      /\ invoked[c] \in {<<>>, <<"getUser">>}
      /\ written[c] = {}

C3_UnauthorizedStep ==
  \A c \in Slots :
    StepOf(c) /\ (BadCredential(c) \/ BadCredential(c)') =>
      evaluations' = evaluations

C3_Unauthorized == []C3_UnauthorizedState /\ [][C3_UnauthorizedStep]_vars

\* Both cases have happened with rows in the log: a call without a header and
\* a call with a rejected token have ended.
C3_Witness ==
  /\ Len(evaluations) > 0
  /\ \E c \in Slots :
       /\ Ended(c) /\ Unauthorized(response[c])
       /\ token[c] = <<"jwt-expired">> /\ invoked[c] = <<"getUser">>

(***************************************************************************)
(* C2.  Every admit call, whatever the collaborators answer, ends; it ends *)
(* in exactly one of Accepted, Skipped, Rejected; and it never goes back   *)
(* to an earlier step.                                                     *)
(***************************************************************************)
StepRank(p) ==
  CASE p = "idle" -> 0
    [] p = "getUser" -> 1
    [] p = "config" -> 2
    [] p = "count" -> 3
    [] p = "json" -> 4
    [] p = "insert" -> 5
    [] p = "done" -> 6

C2_OneOutcome ==
  \A c \in Slots :
    /\ Ended(c) =>
         LET r == response[c] IN
           /\ Accepted(r) \/ Skipped(r) \/ Rejected(r)
           /\ ~(Accepted(r) /\ Skipped(r))
           /\ ~(Accepted(r) /\ Rejected(r))
           /\ ~(Skipped(r) /\ Rejected(r))
    /\ Admit(c) /\ pc[c] # "done" => response[c] = Null

C2_Forward ==
  \A c \in Slots :
    StepOf(c) =>
      \/ StepRank(pc'[c]) > StepRank(pc[c])
      \/ pc[c] = "done" /\ pc'[c] = "idle"

C2_Terminates ==
  /\ []C2_OneOutcome
  /\ [][C2_Forward]_vars
  /\ \A c \in Slots : Admit(c) ~> Ended(c)

\* A call has ended although the count query and the insert both failed.
C2_Witness ==
  \E c \in Slots :
    /\ Ended(c) /\ ServerError(response[c])
    /\ count[c] = NullCount
    /\ invoked[c] = <<"getUser", "config", "count", "insert">>

(***************************************************************************)
(* C4.  Calls served one after another, a fixed config, no other writer    *)
(* of the log: the rows of a user created in the current day are never     *)
(* more than max_eval_per_day.                                             *)
(***************************************************************************)
C4_DailyCeiling ==
  \A u \in Users :
    eval_configs[u] # Null =>
      Cardinality(RowsOfDay(u, now)) <= eval_configs[u].max_eval_per_day

(***************************************************************************)
(* C5.  The gate and the insert are not one step: a call that is past the  *)
(* gate decided on the count it read, which was below the limit (or null)  *)
(* and which the log may have outgrown since.  With MaxInFlight calls in   *)
(* flight and max_eval_per_day - 1 rows today, all of them can read that   *)
(* count and all can insert (the witness).                                 *)
(***************************************************************************)
PastGate(c) ==
  \/ pc[c] \in {"json", "insert"}
  \/ Ended(c) /\ "insert" \in {invoked[c][i] : i \in 1 .. Len(invoked[c])}

C5_StaleCount ==
  \A c \in Slots :
    PastGate(c) =>
      /\ count[c] = NullCount \/ count[c] < config[c].max_eval_per_day
      /\ count[c] <= CountSince(evaluations, user[c], today[c])
      /\ pc[c] = "insert" => ENABLED Insert(c, FALSE)

C5_Witness ==
  /\ \A c \in Slots :
       /\ Ended(c) /\ Accepted(response[c]) /\ user[c] = "u1"
       /\ count[c] = config[c].max_eval_per_day - 1
  /\ Cardinality(RowsOfDay("u1", now)) =
       eval_configs["u1"].max_eval_per_day + MaxInFlight - 1

(***************************************************************************)
(* C6.  A fixed config, no other writer of the log, at most MaxInFlight    *)
(* calls of the user in flight: the rows of the user created in the        *)
(* current day are never more than max_eval_per_day + MaxInFlight.         *)
(***************************************************************************)
C6_OvershootAtMostN ==
  \A u \in Users :
    eval_configs[u] # Null =>
      Cardinality(RowsOfDay(u, now)) <=
        eval_configs[u].max_eval_per_day + MaxInFlight

(***************************************************************************)
(* C7.  A call served alone under the always policy, identity and config   *)
(* valid: with max_eval_per_day rows of its day before it, it ends in      *)
(* QuotaExceeded; with one row fewer it ends Accepted (unless the body or  *)
(* the insert fails).                                                      *)
(***************************************************************************)
\* The rows of the caller, in the day the handler saw, that the call found.
PriorToday(c) ==
  Cardinality({i \in 1 .. Len(evaluations) :
                 /\ evaluations[i].user_id = user[c]
                 /\ StartOfDay(evaluations[i].created_at) = today[c]
                 /\ evaluations[i].id \notin written[c]})

C7_QuotaBoundary ==
  \A c \in Slots :
    Ended(c) /\ config[c] # Null /\ config[c].run_policy = "always" =>
      /\ PriorToday(c) = config[c].max_eval_per_day =>
           QuotaExceeded(response[c])
      /\ PriorToday(c) = config[c].max_eval_per_day - 1 =>
           Accepted(response[c]) \/ ServerError(response[c])

(***************************************************************************)
(* C8.  A call the sampling gate turns away ends with status 200 and a     *)
(* message, not an error; it invokes neither the count nor the insert, and *)
(* the log changes only in the insert step of a call that was not turned   *)
(* away: the log, and so every user's count, is as it was.                 *)
(***************************************************************************)
SampledOut(c) ==
  /\ Admit(c) /\ config[c] # Null
  /\ draw[c] # NoDraw /\ ~(draw[c] < config[c].sample_rate_pct)

C8_SkippedState ==
  \A c \in Slots :
    SampledOut(c) =>
      /\ pc[c] = "done"
      /\ response[c].status = 200 /\ response[c].kind = "message"
      /\ invoked[c] = <<"getUser", "config", "random">>
      /\ written[c] = {}

C8_SkippedStep ==
  /\ \A c \in Slots :
       StepOf(c) /\ (SampledOut(c) \/ SampledOut(c)') =>
         evaluations' = evaluations
  /\ evaluations' # evaluations =>
       \E c \in Slots :
         /\ pc[c] = "insert" /\ pc'[c] = "done" /\ ~SampledOut(c)
         /\ \A k \in Slots \ {c} : pc'[k] = pc[k]

C8_SkippedNoEffect == []C8_SkippedState /\ [][C8_SkippedStep]_vars

\* A call was turned away while the log held rows.
C8_Witness ==
  /\ Len(evaluations) > 0
  /\ \E c \in Slots : SampledOut(c) /\ Ended(c) /\ Skipped(response[c])

(***************************************************************************)
(* C9.  Under the always policy no draw is made, whatever the sample rate; *)
(* no call is Skipped; and a call with a well-formed body is Accepted      *)
(* unless it ends in Unauthorized, NoConfig, QuotaExceeded or a failed     *)
(* insert.                                                                 *)
(***************************************************************************)
PersistenceError(c) ==
  ServerError(response[c]) /\ invoked[c] # <<>> /\
  invoked[c][Len(invoked[c])] = "insert"

C9_AlwaysNeverSamples ==
  eval_configs["u1"] # Null /\ eval_configs["u1"].run_policy = "always" =>
    \A c \in Slots :
      Admit(c) =>
        /\ draw[c] = NoDraw
        /\ \A i \in 1 .. Len(invoked[c]) : invoked[c][i] # "random"
        /\ Ended(c) => ~Skipped(response[c])
        /\ Ended(c) /\ body[c] # Garbage =>
             \/ Accepted(response[c])
             \/ Unauthorized(response[c])
             \/ NoConfigFound(response[c])
             \/ QuotaExceeded(response[c])
             \/ PersistenceError(c)

\* Accepted under the always policy with sample rate 0.
C9_Witness ==
  /\ eval_configs["u1"] # Null
  /\ eval_configs["u1"].run_policy = "always"
  /\ eval_configs["u1"].sample_rate_pct = 0
  /\ \E c \in Slots : Ended(c) /\ Accepted(response[c])

(***************************************************************************)
(* C10.  Under the sampled policy with sample rate 0, every call that gets *)
(* its user and its config is Skipped, whatever the draw; none goes on to  *)
(* the count or the insert, none is Accepted.                              *)
(***************************************************************************)
C10_RateZeroSkips ==
  \A c \in Slots :
    Admit(c) /\ Sampled(config[c]) /\ config[c].sample_rate_pct = 0 =>
      /\ pc[c] = "done"
      /\ Skipped(response[c])
      /\ draw[c] \in Draws
      /\ written[c] = {}

\* Skipped at rate 0 on the smallest draw.
C10_Witness ==
  \E c \in Slots :
    /\ Ended(c) /\ Sampled(config[c]) /\ config[c].sample_rate_pct = 0
    /\ draw[c] = 0 /\ Skipped(response[c])

(***************************************************************************)
(* C11.  Under the sampled policy with sample rate 100 no call is Skipped, *)
(* whatever the draw: a call that read such a config goes on to the count, *)
(* and it ends Accepted unless the limit is reached, the body is no JSON   *)
(* or the insert fails.                                                    *)
(***************************************************************************)
Invoked(c, step) == \E i \in 1 .. Len(invoked[c]) : invoked[c][i] = step

C11_RateHundredNeverSkips ==
  \A c \in Slots :
    Admit(c) /\ Sampled(config[c]) /\ config[c].sample_rate_pct = 100 =>
      /\ draw[c] \in Draws
      /\ pc[c] \in {"count", "json", "insert", "done"}
      /\ Ended(c) =>
           /\ ~Skipped(response[c])
           /\ Invoked(c, "count")
           /\ \/ Accepted(response[c])
              \/ QuotaExceeded(response[c]) /\
                 count[c] >= config[c].max_eval_per_day
              \/ ServerError(response[c]) /\ body[c] = Garbage
              \/ PersistenceError(c)

\* Accepted at rate 100 on the largest draw.
C11_Witness ==
  \E c \in Slots :
    /\ Ended(c) /\ Sampled(config[c]) /\ config[c].sample_rate_pct = 100
    /\ draw[c] = 99 /\ Accepted(response[c])

(***************************************************************************)
(* C12.  Under the sampled policy one draw is made per call, and the call  *)
(* goes on to the count exactly when the draw is below sample_rate_pct,    *)
(* for every draw and every rate tried.                                    *)
(***************************************************************************)
C12_PassesIffBelowRate ==
  \A c \in Slots :
    Admit(c) /\ Sampled(config[c]) =>
      /\ draw[c] \in Draws
      /\ Cardinality({i \in 1 .. Len(invoked[c]) : invoked[c][i] = "random"}) = 1
      /\ draw[c] < config[c].sample_rate_pct <=>
           pc[c] \in {"count", "json", "insert"} \/ Invoked(c, "count")
      /\ ~(draw[c] < config[c].sample_rate_pct) <=>
           Ended(c) /\ Skipped(response[c])

\* At rate 50 the draw 49 has passed.
C12_Witness ==
  \E c \in Slots :
    /\ Admit(c) /\ Sampled(config[c]) /\ config[c].sample_rate_pct = 50
    /\ draw[c] = 49 /\ pc[c] = "count"

\* At rate 50 the draw 50 has not.
C12_WitnessSkipped ==
  \E c \in Slots :
    /\ Ended(c) /\ Sampled(config[c]) /\ config[c].sample_rate_pct = 50
    /\ draw[c] = 50 /\ Skipped(response[c])

(***************************************************************************)
(* C13.  A call of an authenticated user who has no eval_configs row ends  *)
(* with the no-config rejection straight after the lookup: no draw, no     *)
(* count, no insert, and no step of the call changes eval_configs or the   *)
(* log; no config row is created for the user.                             *)
(***************************************************************************)
HasNoConfig(c) == user[c] \in Users /\ eval_configs[user[c]] = Null

C13_NoConfigState ==
  \A c \in Slots :
    Admit(c) /\ HasNoConfig(c) /\ pc[c] # "config" =>
      /\ Ended(c) /\ NoConfigFound(response[c])
      /\ invoked[c] = <<"getUser", "config">>
      /\ config[c] = Null /\ draw[c] = NoDraw /\ count[c] = NullCount
      /\ written[c] = {}

C13_NoConfigStep ==
  \A c \in Slots :
    StepOf(c) /\ HasNoConfig(c) =>
      /\ evaluations' = evaluations
      /\ eval_configs' = eval_configs

C13_NoConfig == []C13_NoConfigState /\ [][C13_NoConfigStep]_vars

\* A call of the user without a config has ended while the log has rows of the
\* other user, who has an insert pending.
C13_Witness ==
  \E c \in Slots :
    /\ Ended(c) /\ HasNoConfig(c) /\ NoConfigFound(response[c])
    /\ Len(evaluations) > 0
    /\ \E k \in Slots : pc[k] = "insert"

(***************************************************************************)
(* C14.  When the insert fails the call ends with status 500, the insert   *)
(* has been invoked once and is not invoked again, and the log is as it    *)
(* was before the call.                                                    *)
(***************************************************************************)
C14_FailedInsertState ==
  \A c \in Slots :
    Admit(c) /\ Invoked(c, "insert") =>
      /\ Ended(c)
      /\ Cardinality({i \in 1 .. Len(invoked[c]) : invoked[c][i] = "insert"}) = 1
      /\ written[c] = {} <=> ServerError(response[c])
      /\ written[c] # {} <=> Accepted(response[c])

C14_FailedInsertStep ==
  \A c \in Slots :
    pc[c] = "insert" /\ StepOf(c) /\ ~Accepted(response'[c]) =>
      /\ evaluations' = evaluations
      /\ response'[c].status = 500 /\ response'[c].kind = "error"
      /\ pc'[c] = "done"
      /\ written'[c] = {}

C14_FailedInsert == []C14_FailedInsertState /\ [][C14_FailedInsertStep]_vars

\* An insert has failed with rows in the log.
C14_Witness ==
  \E c \in Slots :
    Ended(c) /\ PersistenceError(c) /\ Len(evaluations) > 0

(***************************************************************************)
(* C15.  When the count query fails the failure is propagated: the call    *)
(* ends rejected and appends no row; the limit check is never passed on a  *)
(* failed count.                                                           *)
(***************************************************************************)
CountFailed(c) == Admit(c) /\ Invoked(c, "count") /\ count[c] = NullCount

C15_CountFailurePropagated ==
  \A c \in Slots :
    CountFailed(c) =>
      /\ Ended(c) /\ Rejected(response[c])
      /\ ~Invoked(c, "insert")
      /\ written[c] = {}

\* What the code does: the call whose count query failed has written a row.
C15_FailOpen ==
  \E c \in Slots :
    CountFailed(c) /\ Ended(c) /\ Accepted(response[c]) /\ written[c] # {}

(***************************************************************************)
(* C16.  The count the count query returns for a user is the number of     *)
(* rows of that user with created_at in [today, now), today being the      *)
(* midnight the handler computed and now the instant of the query: rows of *)
(* other users, rows before that midnight and rows with created_at at or   *)
(* after now are not counted.                                              *)
(***************************************************************************)
CountQueryStep(c) == pc[c] = "count" /\ StepOf(c) /\ count'[c] # NullCount

RowsOf(userId) == {i \in 1 .. Len(evaluations) : evaluations[i].user_id = userId}

C16_CountInDayUpToNowStep ==
  \A c \in Slots :
    CountQueryStep(c) =>
      count'[c] =
        Cardinality({i \in RowsOf(user[c]) :
                       /\ today[c] <= evaluations[i].created_at
                       /\ evaluations[i].created_at < now})

C16_CountInDayUpToNow == [][C16_CountInDayUpToNowStep]_vars

\* As the code has it: the window has no upper end.  The count is the number
\* of the user's rows less those of a day before the handler's today.
C16_CountFromMidnightStep ==
  \A c \in Slots :
    CountQueryStep(c) =>
      /\ count'[c] =
           Cardinality(RowsOf(user[c])) -
           Cardinality({i \in RowsOf(user[c]) :
                          StartOfDay(evaluations[i].created_at) < today[c]})
      /\ count'[c] >= 0
      /\ today[c] <= now /\ today[c] % DayLen = 0

C16_CountFromMidnight == [][C16_CountFromMidnightStep]_vars

\* A count has been returned with all three kinds of row in the log: a row of
\* the other user, a row of the user from before midnight, and a row of the
\* user created at the instant of the query, which is counted.
C16_Witness ==
  \E c \in Slots :
    /\ pc[c] = "json" /\ count[c] = 1
    /\ \E i \in 1 .. Len(evaluations) : evaluations[i].user_id # user[c]
    /\ \E i \in RowsOf(user[c]) : evaluations[i].created_at < today[c]
    /\ \E i \in RowsOf(user[c]) : evaluations[i].created_at = now

(***************************************************************************)
(* C17.  The user_id of a row the handler writes is the user of the token  *)
(* and its created_at is the instant of the insert, whatever the body      *)
(* holds: a body with user_id and created_at fields of its own gives the   *)
(* row the body without them gives.                                        *)
(***************************************************************************)
C17_OwnerAndTimeState ==
  /\ \A i \in 1 .. Len(evaluations) :
       evaluations[i].user_id = "u1" /\ evaluations[i].created_at <= now
  /\ \A c \in Slots :
       Ended(c) /\ Accepted(response[c]) =>
         response[c].evaluation.user_id = TokenUser(token[c])

C17_OwnerAndTimeStep ==
  \A c \in Slots :
    pc[c] = "insert" /\ StepOf(c) /\ Accepted(response'[c]) =>
      /\ response'[c].evaluation.user_id = TokenUser(token[c])
      /\ response'[c].evaluation.created_at = now
      /\ body[c] = PayloadSpoof =>
           response'[c].evaluation =
             NewRow(evaluations, InsertObject(TokenUser(token[c]), PayloadBare), now)

C17_OwnerAndTime == []C17_OwnerAndTimeState /\ [][C17_OwnerAndTimeStep]_vars

\* A call whose body names another owner and a later time has been accepted
\* after the clock has moved, with an earlier row in the log.
C17_Witness ==
  \E c \in Slots :
    /\ Ended(c) /\ Accepted(response[c]) /\ body[c] = PayloadSpoof
    /\ now > 0 /\ response[c].evaluation.created_at = now
    /\ Len(evaluations) > 1

(***************************************************************************)
(* C18.  A call of user A changes nothing of another user B: the rows of   *)
(* B and the config of B change in no step of a call of A, the count a     *)
(* call of B reads is a count of rows of B, and a call of B is turned away *)
(* at the limit only when B's own rows reach B's limit.                    *)
(***************************************************************************)
RowsSeq(rows, userId) ==
  LET Owned(r) == r.user_id = userId IN SelectSeq(rows, Owned)

C18_CrossUserState ==
  \A c \in Slots :
    Admit(c) /\ count[c] # NullCount =>
      /\ count[c] <= Cardinality(RowsOf(user[c]))
      /\ Ended(c) /\ QuotaExceeded(response[c]) =>
           Cardinality(RowsOf(user[c])) >= eval_configs[user[c]].max_eval_per_day

C18_CrossUserStep ==
  \A c \in Slots :
    StepOf(c) /\ pc[c] # "idle" =>
      \A B \in Users \ {TokenUser(token[c])} :
        /\ RowsSeq(evaluations', B) = RowsSeq(evaluations, B)
        /\ eval_configs'[B] = eval_configs[B]
        /\ CountSince(evaluations', B, StartOfDay(now)) =
           CountSince(evaluations, B, StartOfDay(now))

C18_CrossUser == []C18_CrossUserState /\ [][C18_CrossUserStep]_vars

\* u1 has written as many rows as u2's limit allows u2, and a call of u2,
\* whose count is 0, has been accepted while a call of u1 is in flight.
C18_Witness ==
  \E c, k \in Slots :
    /\ Ended(c) /\ user[c] = "u2" /\ Accepted(response[c]) /\ count[c] = 0
    /\ Cardinality(RowsOf("u1")) >= eval_configs["u2"].max_eval_per_day
    /\ user[k] = "u1" /\ pc[k] = "insert"

(***************************************************************************)
(* C19.  The log is append-only: a step changes it only by appending the   *)
(* one row of a call that ends Accepted in that step; a call that ends in  *)
(* any other way leaves it unchanged; no row is changed or removed.        *)
(***************************************************************************)
C19_AppendOnlyState ==
  \A c \in Slots :
    Ended(c) =>
      Cardinality(written[c]) = IF Accepted(response[c]) THEN 1 ELSE 0

C19_AppendOnlyStep ==
  /\ IsPrefix(evaluations, evaluations')
  /\ Len(evaluations') <= Len(evaluations) + 1
  /\ Len(evaluations') = Len(evaluations) + 1 =>
       \E c \in Slots :
         /\ StepOf(c) /\ pc'[c] = "done" /\ Accepted(response'[c])
         /\ evaluations'[Len(evaluations')] = response'[c].evaluation
  /\ \A c \in Slots :
       StepOf(c) /\ pc'[c] = "done" =>
         Len(evaluations') =
           Len(evaluations) + (IF Accepted(response'[c]) THEN 1 ELSE 0)

C19_AppendOnly == []C19_AppendOnlyState /\ [][C19_AppendOnlyStep]_vars

\* Two calls have been accepted and the log has their two rows, while a call
\* that failed at the insert has left it alone.
C19_Witness ==
  \E c, k \in Slots :
    /\ Ended(c) /\ Accepted(response[c]) /\ response[c].evaluation.id = 2
    /\ Ended(k) /\ PersistenceError(k)
    /\ Len(evaluations) = 2

(***************************************************************************)
(* C20.  The handler does not deduplicate: an insert of a payload whose    *)
(* interaction_id the user's rows already hold ends Accepted and adds a    *)
(* row with an id no other row has; with the limit not reached, the second *)
(* of two calls with the same payload is accepted as the first was.        *)
(***************************************************************************)
SeenBefore(c) ==
  \E i \in RowsOf(user[c]) :
    evaluations[i].interaction_id = body[c].interaction_id

C20_NotIdempotentState ==
  /\ \A i, j \in 1 .. Len(evaluations) :
       i # j => evaluations[i].id # evaluations[j].id
  /\ \A c \in Slots :
       /\ Ended(c) /\ config[c] # Null
       /\ count[c] # NullCount /\ count[c] < config[c].max_eval_per_day
       => /\ Accepted(response[c])
          /\ \E i \in 1 .. Len(evaluations) : evaluations[i] = response[c].evaluation

C20_NotIdempotentStep ==
  \A c \in Slots :
    pc[c] = "insert" /\ StepOf(c) /\ SeenBefore(c) =>
      /\ Accepted(response'[c])
      /\ Len(evaluations') = Len(evaluations) + 1
      /\ \A i \in 1 .. Len(evaluations) :
           /\ evaluations'[i] = evaluations[i]
           /\ evaluations[i].id # response'[c].evaluation.id

C20_NotIdempotent == []C20_NotIdempotentState /\ [][C20_NotIdempotentStep]_vars

\* The same payload has been accepted twice: two rows that differ in id alone.
C20_Witness ==
  \E c \in Slots :
    /\ Ended(c) /\ Accepted(response[c]) /\ body[c] = PayloadBare
    /\ \E i \in 1 .. Len(evaluations) :
         /\ evaluations[i].id # response[c].evaluation.id
         /\ [evaluations[i] EXCEPT !.id = response[c].evaluation.id] =
            response[c].evaluation

(***************************************************************************)
(* C21.  The status of a response is fixed by the place at which the call  *)
(* ended: 401 before or at getUser, 400 at the config lookup, 200 at the   *)
(* sampling gate, 429 at the limit, 500 at the body or at a failed insert, *)
(* 201 after a successful insert.  So 200 is the status of a skip and of   *)
(* nothing else.                                                           *)
(***************************************************************************)
LastInvoked(c) ==
  IF invoked[c] = <<>> THEN "none" ELSE invoked[c][Len(invoked[c])]

AtLimit(c) ==
  /\ config[c] # Null /\ count[c] # NullCount
  /\ count[c] >= config[c].max_eval_per_day

StatusOf(c) ==
  CASE LastInvoked(c) \in {"none", "getUser"} -> 401
    [] LastInvoked(c) = "config" -> 400
    [] LastInvoked(c) = "random" -> 200
    [] LastInvoked(c) = "count" -> IF AtLimit(c) THEN 429 ELSE 500
    [] LastInvoked(c) = "insert" -> IF written[c] = {} THEN 500 ELSE 201

C21_StatusCodes ==
  \A c \in Slots :
    Ended(c) =>
      /\ response[c].status = StatusOf(c)
      /\ response[c].status = 200 <=>
           /\ Sampled(config[c])
           /\ ~(draw[c] < config[c].sample_rate_pct)
      /\ response[c].status = 201 <=> written[c] # {}

\* A skip has been answered with rows in the log.
C21_Witness ==
  \E c \in Slots :
    /\ Ended(c) /\ LastInvoked(c) = "random" /\ response[c].status = 200
    /\ Len(evaluations) > 0

(***************************************************************************)
(* C22.  The body of a response is {message: "skipped"} on a skip,         *)
(* {error: "unauthorized"} on an identity failure, {error: "no config"}    *)
(* on a missing config, {error: "quota exceeded"} at the limit, and        *)
(* {success: true, evaluation: row} on acceptance.                         *)
(***************************************************************************)
BodyIs(c, kind, text) == response[c].kind = kind /\ response[c].text = text

C22_InterfaceBodies ==
  \A c \in Slots :
    Ended(c) =>
      /\ LastInvoked(c) \in {"none", "getUser"} => BodyIs(c, "error", "unauthorized")
      /\ LastInvoked(c) = "config" => BodyIs(c, "error", "no config")
      /\ LastInvoked(c) = "random" => BodyIs(c, "message", "skipped")
      /\ LastInvoked(c) = "count" /\ AtLimit(c) =>
           BodyIs(c, "error", "quota exceeded")
      /\ LastInvoked(c) = "insert" /\ written[c] # {} =>
           /\ response[c].kind = "success"
           /\ response[c].evaluation = evaluations[response[c].evaluation.id]

\* As the code has them: the keys are those of the interface, the texts are
\* the handler's own.
C22_HandlerBodies ==
  \A c \in Slots :
    Ended(c) =>
      /\ LastInvoked(c) = "none" =>
           BodyIs(c, "error", "Missing authorization header")
      /\ LastInvoked(c) = "getUser" => BodyIs(c, "error", "Unauthorized")
      /\ LastInvoked(c) = "config" =>
           BodyIs(c, "error", "No evaluation config found")
      /\ LastInvoked(c) = "random" =>
           BodyIs(c, "message", "Evaluation skipped due to sampling")
      /\ LastInvoked(c) = "count" /\ AtLimit(c) =>
           BodyIs(c, "error", "Daily evaluation limit reached")
      /\ LastInvoked(c) = "insert" /\ written[c] # {} =>
           /\ response[c].kind = "success"
           /\ response[c].evaluation = evaluations[response[c].evaluation.id]
           /\ written[c] = {response[c].evaluation.id}
      /\ response[c].kind # "success" => response[c].evaluation = Null

\* A call has been turned away at the limit with the handler's text.
C22_Witness ==
  \E c \in Slots :
    /\ Ended(c) /\ AtLimit(c) /\ LastInvoked(c) = "count"
    /\ BodyIs(c, "error", "Daily evaluation limit reached")

(***************************************************************************)
(* C23.  In a row the handler writes, flags is empty where the payload has *)
(* no flags and pii_tokens_redacted is 0 where the payload has none; where *)
(* the payload has them, the row has the payload's values.                 *)
(***************************************************************************)
InsertedRow(c) == response'[c].evaluation
InsertStep(c) == pc[c] = "insert" /\ StepOf(c) /\ Accepted(response'[c])

C23_DefaultsStep ==
  \A c \in Slots :
    InsertStep(c) =>
      /\ InsertedRow(c).flags =
           IF "flags" \in DOMAIN body[c] THEN body[c].flags ELSE <<>>
      /\ InsertedRow(c).pii_tokens_redacted =
           IF "pii_tokens_redacted" \in DOMAIN body[c]
             THEN body[c].pii_tokens_redacted ELSE 0
      /\ evaluations'[Len(evaluations')] = InsertedRow(c)

C23_Defaults == [][C23_DefaultsStep]_vars

\* The log holds a row of the payload without optional fields, written with
\* the defaults, and a row written with the payload's flags and count.
C23_Witness ==
  \E i, j \in 1 .. Len(evaluations) :
    /\ evaluations[i].score = NullScore
    /\ evaluations[i].flags = <<>> /\ evaluations[i].pii_tokens_redacted = 0
    /\ evaluations[j].flags = <<"needs-review">>
    /\ evaluations[j].pii_tokens_redacted = 3

(***************************************************************************)
(* C24.  A payload without score is stored with a null score, a payload    *)
(* with score 0 is stored with score 0, and the two rows differ in score.  *)
(***************************************************************************)
C24_ScoreStep ==
  \A c \in Slots :
    InsertStep(c) =>
      /\ "score" \notin DOMAIN body[c] => InsertedRow(c).score = NullScore
      /\ "score" \in DOMAIN body[c] => InsertedRow(c).score = <<body[c].score>>
      /\ body[c] = PayloadFull =>
           /\ InsertedRow(c).score = <<0>>
           /\ InsertedRow(c).score #
                NewRow(evaluations, InsertObject(user[c], PayloadBare), now).score

C24_Score == [][C24_ScoreStep]_vars

\* The log holds a row without a score and a row with score 0.
C24_Witness ==
  \E i, j \in 1 .. Len(evaluations) :
    evaluations[i].score = NullScore /\ evaluations[j].score = <<0>>

(***************************************************************************)
(* C26.  The limit is per calendar day: today is the midnight of the day   *)
(* of the call, rows of a day before it never count, and a call on a day   *)
(* on which the user has no rows yet is accepted, however many rows the    *)
(* day before has.                                                         *)
(***************************************************************************)
DayOf(t) == t \div DayLen

RowsFromDay(userId, d) ==
  {i \in RowsOf(userId) : DayOf(evaluations[i].created_at) >= d}

C26_PerDayState ==
  \A c \in Slots :
    Ended(c) /\ config[c] # Null /\ count[c] = 0 => Accepted(response[c])

C26_PerDayStep ==
  \A c \in Slots :
    /\ pc[c] = "config" /\ pc'[c] = "count" =>
         today'[c] = DayOf(now) * DayLen
    /\ CountQueryStep(c) =>
         /\ count'[c] = Cardinality(RowsFromDay(user[c], DayOf(today[c])))
         /\ RowsFromDay(user[c], DayOf(today[c])) = {} => pc'[c] = "json"

C26_PerDay == []C26_PerDayState /\ [][C26_PerDayStep]_vars

\* The first call of the second day has been accepted with count 0, the rows
\* of the first day being as many as the limit.
C26_Witness ==
  \E c \in Slots :
    /\ Ended(c) /\ Accepted(response[c])
    /\ today[c] = DayLen /\ count[c] = 0
    /\ Cardinality({i \in RowsOf(user[c]) : evaluations[i].created_at < DayLen})
         >= config[c].max_eval_per_day

(***************************************************************************)
(* C27.  The body is read only after the limit check: a call whose body is *)
(* no JSON writes no row and never reaches the insert; it ends with status *)
(* 500 exactly when the user, the config, the sampling gate and the limit  *)
(* check all let it pass, and with 401, 400, 200 or 429 of the gate that   *)
(* stopped it otherwise.                                                   *)
(***************************************************************************)
GatesPassed(c) ==
  /\ user[c] \in Users /\ config[c] # Null
  /\ Sampled(config[c]) => draw[c] < config[c].sample_rate_pct
  /\ Invoked(c, "count") /\ ~AtLimit(c)

C27_BadBody ==
  \A c \in Slots :
    Admit(c) /\ body[c] = Garbage =>
      /\ written[c] = {} /\ ~Invoked(c, "insert") /\ pc[c] # "insert"
      /\ pc[c] = "json" => GatesPassed(c)
      /\ Ended(c) =>
           /\ response[c].status = 500 <=> GatesPassed(c)
           /\ ~GatesPassed(c) =>
                /\ response[c].status \in {401, 400, 200, 429}
                /\ response[c].status = StatusOf(c)

\* A call with such a body has ended with 500 after one of a good body was
\* accepted.
C27_Witness ==
  \E c \in Slots :
    /\ Ended(c) /\ body[c] = Garbage /\ response[c].status = 500
    /\ count[c] = 1 /\ Len(evaluations) = 1

(***************************************************************************)
(* C28.  A config query that fails is handled as a config that is not      *)
(* there: the call of a user who has a config ends with status 400 when    *)
(* the query gave no data, and no draw, count or insert is made.           *)
(***************************************************************************)
LookupFailed(c) ==
  /\ Admit(c) /\ user[c] \in Users /\ pc[c] \notin {"getUser", "config"}
  /\ eval_configs[user[c]] # Null /\ config[c] = Null

C28_LookupErrorState ==
  \A c \in Slots :
    LookupFailed(c) =>
      /\ Ended(c)
      /\ response[c].status = 400 /\ response[c].kind = "error"
      /\ invoked[c] = <<"getUser", "config">>
      /\ draw[c] = NoDraw /\ count[c] = NullCount /\ written[c] = {}

C28_LookupErrorStep ==
  \A c \in Slots :
    pc[c] = "config" /\ StepOf(c) /\ config'[c] = Null =>
      /\ pc'[c] = "done" /\ response'[c].status = 400
      /\ evaluations' = evaluations

C28_LookupError == []C28_LookupErrorState /\ [][C28_LookupErrorStep]_vars

\* The lookup of a user with a sampled config has failed, with rows in the log.
C28_Witness ==
  \E c \in Slots :
    /\ LookupFailed(c) /\ Ended(c) /\ Sampled(eval_configs[user[c]])
    /\ Len(evaluations) > 0

(***************************************************************************)
(* C25.  A user who has signed up has an eval_configs row, and a user who  *)
(* has not has none, in every state: the signup creates the row, a save on *)
(* the Settings page changes a row that is there, and no step of a request *)
(* creates, changes or removes a row.                                      *)
(***************************************************************************)
C25_OneConfigState ==
  \A u \in Users : u \in accounts <=> eval_configs[u] # Null

C25_OneConfigStep ==
  /\ \A u \in Users :
       eval_configs'[u] # eval_configs[u] =>
         \/ u \notin accounts /\ u \in accounts' /\ eval_configs[u] = Null
         \/ u \in accounts /\ eval_configs[u] # Null /\ eval_configs'[u] # Null
  /\ \A c \in Slots : StepOf(c) => eval_configs' = eval_configs

C25_OneConfig == []C25_OneConfigState /\ [][C25_OneConfigStep]_vars

\* u1 has saved a config of its own and a call of u1 has been accepted under
\* it, while u2 has not signed up.
C25_Witness ==
  \E c \in Slots :
    /\ "u1" \in accounts /\ "u2" \notin accounts
    /\ eval_configs["u1"] \notin {Null, DefaultConfig}
    /\ Ended(c) /\ Accepted(response[c]) /\ config[c] = eval_configs["u1"]

(***************************************************************************)
(* C29.  A request reads the config once and decides with what it read: a  *)
(* save on the Settings page after the read changes nothing for the        *)
(* request in flight, which is accepted when its count is below the limit  *)
(* it read, also when the count has reached the limit saved since.         *)
(***************************************************************************)
C29_ReadOnceState ==
  \A c \in Slots :
    Admit(c) =>
      /\ Cardinality({i \in 1 .. Len(invoked[c]) : invoked[c][i] = "config"}) <= 1
      /\ Ended(c) /\ config[c] # Null =>
           Skipped(response[c]) <=>
             /\ config[c].run_policy = "sampled"
             /\ ~(draw[c] < config[c].sample_rate_pct)
      /\ Ended(c) /\ Invoked(c, "count") =>
           /\ Accepted(response[c]) <=> count[c] < config[c].max_eval_per_day
           /\ QuotaExceeded(response[c]) <=> count[c] >= config[c].max_eval_per_day

C29_ReadOnceStep ==
  \A c \in Slots :
    /\ pc[c] \in {"count", "json", "insert"} => config'[c] = config[c]
    /\ config'[c] # config[c] /\ pc[c] # "done" =>
         pc[c] = "config" /\ config'[c] = eval_configs[user[c]]

C29_ReadOnce == []C29_ReadOnceState /\ [][C29_ReadOnceStep]_vars

\* A call has been accepted on the limit it read, with a count that has
\* reached the limit saved after the read.
C29_Witness ==
  \E c \in Slots :
    /\ Ended(c) /\ Accepted(response[c])
    /\ eval_configs[user[c]] # config[c]
    /\ count[c] >= eval_configs[user[c]].max_eval_per_day
    /\ count[c] < config[c].max_eval_per_day

(***************************************************************************)
(* C30.  The count takes every row of the user with created_at of today,   *)
(* whoever wrote it: the rows of the seed scripts count as the rows of the *)
(* handler do, a call passes the limit check only when both together are   *)
(* below the limit, and the count can be above the number of rows the      *)
(* handler wrote today.                                                    *)
(***************************************************************************)
SeededSince(userId, since) ==
  {i \in RowsOf(userId) :
     /\ evaluations[i].interaction_id = "int_seed"
     /\ evaluations[i].created_at >= since}

IngestedSince(userId, since) ==
  {i \in RowsOf(userId) :
     /\ evaluations[i].interaction_id # "int_seed"
     /\ evaluations[i].created_at >= since}

C30_SeedRowsCountStep ==
  \A c \in Slots :
    CountQueryStep(c) =>
      LET seeded == Cardinality(SeededSince(user[c], today[c]))
          ingested == Cardinality(IngestedSince(user[c], today[c]))
      IN  /\ count'[c] = seeded + ingested
          /\ pc'[c] = "json" <=>
               ingested < config[c].max_eval_per_day - seeded
          /\ pc'[c] = "done" <=>
               ingested >= config[c].max_eval_per_day - seeded

C30_SeedRowsCount == [][C30_SeedRowsCountStep]_vars

\* A call has been turned away at the limit on a day on which the handler has
\* written nothing: the rows counted are rows of the seed script, while a seed
\* row of the day before is not counted.
C30_Witness ==
  \E c \in Slots :
    /\ Ended(c) /\ QuotaExceeded(response[c])
    /\ today[c] = DayLen
    /\ IngestedSince(user[c], today[c]) = {}
    /\ count[c] = Cardinality(SeededSince(user[c], today[c]))
    /\ Cardinality(SeededSince(user[c], 0)) > count[c]

====
